---------------------------- MODULE Spec2Model ----------------------------
(***************************************************************************)
(* Model of scripts/harmonic_qubit_resonance.py: the synthesis of the      *)
(* damped multi-harmonic series (simulate_harmonic_qubit), the coherence   *)
(* metrics (compute_coherence_metrics), the bin-limited direct transform   *)
(* (generate_fft_spectrum) and the driver (run_simulation).                *)
(*                                                                         *)
(* Numbers.  Python floats are binary64.  The model keeps every value the  *)
(* code rounds as an integer count of its last kept decimal:               *)
(*     time, frequency_hz      units of 10^-4   (round(x, 4))              *)
(*     frequency_resolution_hz units of 10^-6   (round(x, 6))              *)
(*     coherence_retention     units of 10^-4   (round(x, 4))              *)
(*     amplitude, magnitude    units of 10^-7: one decimal more than       *)
(*                             round(x, 6) keeps, so that Round6 rounds    *)
(*                             (a rounded amplitude is a multiple of 10)   *)
(* The product duration * sample_rate and the quotient t / sample_rate are *)
(* computed in binary64 itself (53-bit significand, round to nearest,      *)
(* ties to even) on multi-limb naturals, because int() and round() there   *)
(* decide on the last bit.  Sums and quotients of amplitudes are exact     *)
(* rationals rounded half-to-even (binary64 differs from them by less than *)
(* 10^-15 and so only in the direction of an exact tie).  math.sin,        *)
(* math.cos and math.exp have no finite form; they are rational            *)
(* approximants that are exact at the                                      *)
(* quarter turns and at 0 (SinMilli, CosMilli, ExpNegMilli), so only bin 0 *)
(* of the transform and the counts, times and frequencies are exact.       *)
(***************************************************************************)
EXTENDS Integers, Sequences, FiniteSets, TLC

Abs(x) == IF x < 0 THEN -x ELSE x

Min(a, b) == IF a <= b THEN a ELSE b

Max(a, b) == IF a >= b THEN a ELSE b

\* p / q (q > 0) rounded to the nearest integer, ties to even: round()
RoundDiv(p, q) ==
    LET f == p \div q
        r == p % q
    IN  IF 2 * r > q THEN f + 1
        ELSE IF 2 * r < q THEN f
        ELSE IF f % 2 = 0 THEN f ELSE f + 1

(***************************************************************************)
(* Multi-limb naturals: a sequence of limbs, least significant first, each *)
(* in 0 .. Base-1, no leading zero limb; << >> is 0.                       *)
(***************************************************************************)
LimbBits == 7 + 7

Base == 2 ^ LimbBits

RECURSIVE BStrip(_)
BStrip(x) == IF x = << >> THEN x
             ELSE IF x[Len(x)] = 0 THEN BStrip(SubSeq(x, 1, Len(x) - 1))
             ELSE x

RECURSIVE BFromInt(_)
BFromInt(n) == IF n = 0 THEN << >> ELSE <<n % Base>> \o BFromInt(n \div Base)

RECURSIVE BToInt(_)
BToInt(x) == IF x = << >> THEN 0 ELSE x[1] + Base * BToInt(Tail(x))

RECURSIVE BMulCarry(_, _, _)
BMulCarry(x, c, carry) ==
    IF x = << >> THEN BFromInt(carry)
    ELSE LET v == x[1] * c + carry
         IN  <<v % Base>> \o BMulCarry(Tail(x), c, v \div Base)

\* x * c for 0 <= c < 2^16
BMulSmall(x, c) == BStrip(BMulCarry(x, c, 0))

\* x * Base^k
RECURSIVE BShiftLimbs(_, _)
BShiftLimbs(x, k) == IF k = 0 \/ x = << >> THEN x ELSE BShiftLimbs(<<0>> \o x, k - 1)

\* long division by 0 < d < 2^16, most significant limb first: [q, r]
RECURSIVE BDivFrom(_, _, _, _)
BDivFrom(x, d, i, rem) ==
    IF i = 0 THEN [q |-> << >>, r |-> rem]
    ELSE LET v    == rem * Base + x[i]
             rest == BDivFrom(x, d, i - 1, v % d)
         IN  [q |-> rest.q \o <<v \div d>>, r |-> rest.r]

BDivSmall(x, d) ==
    LET res == BDivFrom(x, d, Len(x), 0)
    IN  [q |-> BStrip(res.q), r |-> res.r]

RECURSIVE IntBits(_)
IntBits(n) == IF n = 0 THEN 0 ELSE 1 + IntBits(n \div 2)

\* the bit length of x
BBits(x) == IF x = << >> THEN 0
            ELSE LimbBits * (Len(x) - 1) + IntBits(x[Len(x)])

BIsOdd(x) == x # << >> /\ x[1] % 2 = 1

\* floor(x / 2^s) and whether a 1 bit was shifted out (or sticky was set)
RECURSIVE BShr(_, _, _)
BShr(x, s, sticky) ==
    IF s = 0 \/ x = << >> THEN [q |-> x, sticky |-> sticky]
    ELSE IF s >= LimbBits
         THEN BShr(Tail(x), s - LimbBits, sticky \/ x[1] # 0)
         ELSE LET d == BDivSmall(x, 2 ^ s)
              IN  [q |-> d.q, sticky |-> sticky \/ d.r # 0]

BAddOne(x) == BStrip(BMulCarry(x, 1, 1))

\* x / 2^s rounded to nearest, ties to even; sticky: x already lost a 1 bit
BShrRound(x, s, sticky) ==
    IF s = 0 THEN x
    ELSE LET t    == BShr(x, s - 1, sticky)
             q    == BShr(t.q, 1, FALSE).q
             half == BIsOdd(t.q)
         IN  IF half /\ (t.sticky \/ BIsOdd(q)) THEN BAddOne(q) ELSE q

(***************************************************************************)
(* binary64: a non-negative double is [m, e], the value m * 2^e with m a   *)
(* multi-limb natural of at most 53 bits.                                  *)
(***************************************************************************)
\* x * 2^e rounded to a 53-bit significand
DNormal(x, e, sticky) ==
    LET s == BBits(x) - 53
    IN  IF s <= 0 THEN [m |-> x, e |-> e]
        ELSE [m |-> BShrRound(x, s, sticky), e |-> e + s]

\* the double nearest to n / d (0 <= n < 2^16, 0 < d < 2^16): a decimal
\* literal such as 72.1 = 721/10, and the quotient t / sample_rate
DoubleOf(n, d) ==
    LET qr == BDivSmall(BShiftLimbs(BFromInt(n), 6), d)
    IN  DNormal(qr.q, -(6 * LimbBits), qr.r # 0)

\* the product of double x and the double of integer c (0 <= c < 2^16)
DMulInt(x, c) == DNormal(BMulSmall(x.m, c), x.e, FALSE)

\* int(x): truncation
DTrunc(x) == IF x.e >= 0 THEN BToInt(x.m) * 2 ^ x.e
             ELSE BToInt(BShr(x.m, -x.e, FALSE).q)

\* round(x, 4) in units of 10^-4
DRound4(x) ==
    LET p == BMulSmall(x.m, 10 ^ 4)
    IN  IF x.e >= 0 THEN BToInt(p) * 2 ^ x.e
        ELSE BToInt(BShrRound(p, -x.e, FALSE))

\* round(x, 6) in units of 10^-6
DRound6(x) ==
    LET p == BMulSmall(BMulSmall(x.m, 10 ^ 3), 10 ^ 3)
    IN  IF x.e >= 0 THEN BToInt(p) * 2 ^ x.e
        ELSE BToInt(BShrRound(p, -x.e, FALSE))

Sign(x) == IF x < 0 THEN -1 ELSE IF x > 0 THEN 1 ELSE 0

\* [int, rem] of 2 * x.rem / q added to 2 * x.int (x.rem < q < 2^30)
Twice(x, q) ==
    IF 2 * x.rem >= q THEN [int |-> 2 * x.int + 1, rem |-> 2 * x.rem - q]
    ELSE [int |-> 2 * x.int, rem |-> 2 * x.rem]

\* [int, rem] of 10 * rem / q without leaving 32 bits: 10 r = 8 r + 2 r
TenTimes(rem, q) ==
    LET r2 == Twice([int |-> 0, rem |-> rem], q)
        r8 == Twice(Twice(r2, q), q)
    IN  IF r8.rem + r2.rem >= q
        THEN [int |-> r8.int + r2.int + 1, rem |-> r8.rem + r2.rem - q]
        ELSE [int |-> r8.int + r2.int, rem |-> r8.rem + r2.rem]

\* p * 10^digits / q, p >= 0, q > 0, as [int, rem]: decimal long division
RECURSIVE DecDigits(_, _, _, _)
DecDigits(int, rem, q, digits) ==
    IF digits = 0 THEN [int |-> int, rem |-> rem]
    ELSE LET t == TenTimes(rem, q)
         IN  DecDigits(10 * int + t.int, t.rem, q, digits - 1)

\* round(p / q, digits) in units of 10^-digits (q > 0), ties to even
RoundDec(p, q, digits) ==
    LET d == DecDigits(Abs(p) \div q, Abs(p) % q, q, digits)
        up == 2 * d.rem > q \/ (2 * d.rem = q /\ d.int % 2 = 1)
    IN  Sign(p) * (IF up THEN d.int + 1 ELSE d.int)

\* round(x, 6) of an amplitude x in units of 10^-7, in the same units
Round6(x) == 10 * RoundDiv(x, 10)

(***************************************************************************)
(* math.sin, math.cos, math.exp and math.sqrt.  Angles are whole degrees   *)
(* of a turn; the sine is Bhaskara's rational approximant in thousandths,  *)
(* exact at 0, 30, 90, 150 and 180 degrees; exp(-x) is its (2,2) Pade      *)
(* approximant in thousandths, exact at 0.                                 *)
(***************************************************************************)
SinMilli(deg) ==
    LET d == deg % 360
        h == IF d <= 180 THEN d ELSE d - 180
        v == RoundDiv(4000 * h * (180 - h), 40500 - h * (180 - h))
    IN  IF d <= 180 THEN v ELSE -v

CosMilli(deg) == SinMilli(deg + 90)

\* exp(-xm / 1000) in thousandths
ExpNegMilli(xm) ==
    RoundDiv(1000 * ((12000000 - 6000 * xm + xm * xm) \div 12),
             (12000000 + 6000 * xm + xm * xm) \div 12)

RECURSIVE ISqrtFrom(_, _)
ISqrtFrom(s, r) == IF r * r <= s THEN r ELSE ISqrtFrom(s, (r + s \div r) \div 2)

\* floor(sqrt(s))
ISqrt(s) == IF s < 4 THEN (IF s = 0 THEN 0 ELSE 1) ELSE ISqrtFrom(s, Min(s \div 2, 46340))

\* math.sqrt(re**2 + im**2): |re| exactly when im is 0
Hypot(re, im) ==
    IF im = 0 THEN Abs(re)
    ELSE IF re = 0 THEN Abs(im)
    ELSE LET sc == 1 + Max(Abs(re), Abs(im)) \div 30000
             a  == Abs(re) \div sc
             b  == Abs(im) \div sc
         IN  sc * ISqrt(a * a + b * b)

(***************************************************************************)
(* simulate_harmonic_qubit.  A duration is the decimal literal n/d; a      *)
(* sample rate and a base frequency are integer-valued floats.             *)
(***************************************************************************)
DefaultDamping == 1      \* damping = 0.01, in hundredths

\* compute_resonance_amplitude(frequency, time, damping) in units of 10^-7,
\* time = t / sample_rate given by the index t and the rate
compute_resonance_amplitude(frequency, t, sample_rate, damping) ==
    LET phase == RoundDiv(360 * frequency * t * Sign(sample_rate), Abs(sample_rate))
        decay == ExpNegMilli(RoundDiv(10 * damping * t * Sign(sample_rate),
                                      Abs(sample_rate)))
    IN  10 * decay * SinMilli(phase)

\* int(duration * sample_rate)
NumSamples(duration, sample_rate) ==
    IF duration.n = 0 \/ sample_rate = 0 THEN 0
    ELSE Sign(duration.n) * Sign(sample_rate)
         * DTrunc(DMulInt(DoubleOf(Abs(duration.n), duration.d), Abs(sample_rate)))

\* round(t / sample_rate, 4) for t in range(num_samples)
TimePoint(t, sample_rate) ==
    Sign(sample_rate) * DRound4(DoubleOf(t, Abs(sample_rate)))

Gcd(a, b) == CHOOSE g \in 1..Min(a, b) :
                /\ a % g = 0 /\ b % g = 0
                /\ \A h \in (g + 1)..Min(a, b) : a % h # 0 \/ b % h # 0

RECURSIVE LcmTo(_)
LcmTo(h) == IF h <= 1 THEN 1 ELSE (LcmTo(h - 1) * h) \div Gcd(LcmTo(h - 1), h)

RECURSIVE SumTo(_, _, _)
SumTo(f(_), lo, hi) ==
    IF lo > hi THEN 0
    ELSE IF lo = hi THEN f(lo)
    ELSE LET mid == (lo + hi) \div 2
         IN  SumTo(f, lo, mid) + SumTo(f, mid + 1, hi)

\* sum(1.0 / h for h in range(1, harmonics + 1)) times LcmTo(harmonics)
WeightSum(harmonics) ==
    LET W(h) == LcmTo(harmonics) \div h IN SumTo(W, 1, harmonics)

\* the normalised amplitude of sample t, round(total_amplitude, 6)
SampleAmplitude(base_frequency, harmonics, t, sample_rate) ==
    LET Term(h) == (LcmTo(harmonics) \div h)
                   * compute_resonance_amplitude(base_frequency * h, t, sample_rate,
                                                 DefaultDamping)
    IN  Round6(RoundDiv(SumTo(Term, 1, harmonics), WeightSum(harmonics)))

NoResult == [status |-> "none"]

simulate_harmonic_qubit(base_frequency, harmonics, duration, sample_rate) ==
    LET num_samples == NumSamples(duration, sample_rate)
    IN  IF num_samples > 0 /\ WeightSum(harmonics) = 0
        THEN [status |-> "ZeroDivisionError"]
        ELSE LET resonance_data ==
                     [i \in 1..num_samples |->
                        [time |-> TimePoint(i - 1, sample_rate),
                         amplitude |-> SampleAmplitude(base_frequency, harmonics,
                                                       i - 1, sample_rate)]]
             IN  [status |-> "ok",
                  data_points |-> Len(resonance_data),
                  resonance_data |-> resonance_data]

(***************************************************************************)
(* compute_coherence_metrics                                               *)
(***************************************************************************)
WindowSize == 100

RECURSIVE MaxTo(_, _, _)
MaxTo(f(_), lo, hi) ==
    IF lo = hi THEN f(lo)
    ELSE LET mid   == (lo + hi) \div 2
             left  == MaxTo(f, lo, mid)
             right == MaxTo(f, mid + 1, hi)
         IN  IF left >= right THEN left ELSE right

\* max(abs(a) for a in amplitudes[:initial_count])
PeakAmplitude(amplitudes, initial_count) ==
    LET A(i) == Abs(amplitudes[i]) IN MaxTo(A, 1, initial_count)

\* mutant: the head of the series summed, amplitudes[:final_count]
FinalSumOfHead(amplitudes, final_count) ==
    LET A(i) == Abs(amplitudes[i]) IN SumTo(A, 1, final_count)

\* sum(abs(a) for a in amplitudes[-final_count:])
FinalSum(amplitudes, final_count) ==
    LET A(i) == Abs(amplitudes[i])
    IN  SumTo(A, Len(amplitudes) - final_count + 1, Len(amplitudes))

\* round(final_amplitude, 6), final_amplitude = final_sum / final_count
FinalAverage(final_sum, final_count) == 10 * RoundDiv(final_sum, 10 * final_count)

\* round(coherence_ratio, 4), coherence_ratio = final_amplitude / peak_amplitude
\* if peak_amplitude > 0 else 0, final_amplitude = final_sum / final_count
CoherenceRatio(final_sum, final_count, peak_amplitude) ==
    IF peak_amplitude > 0
    THEN RoundDec(final_sum, final_count * peak_amplitude, 4)
    ELSE 0

\* the record returned for an empty series
ZeroMetrics ==
    [status |-> "ok",
     total_duration_s |-> 0,
     initial_peak_amplitude |-> 0,
     final_avg_amplitude |-> 0,
     coherence_retention |-> 0,
     sample_count |-> 0]

\* the record returned for a series that is not empty
WindowMetrics(amplitudes, times) ==
    LET initial_count  == Min(WindowSize, Len(amplitudes))
        final_count    == Min(WindowSize, Len(amplitudes))
        peak_amplitude == PeakAmplitude(amplitudes, initial_count)
        final_sum      == FinalSum(amplitudes, final_count)
    IN  [status |-> "ok",
         total_duration_s |-> times[Len(times)],
         initial_peak_amplitude |-> Round6(peak_amplitude),
         final_avg_amplitude |-> FinalAverage(final_sum, final_count),
         coherence_retention |->
             CoherenceRatio(final_sum, final_count, peak_amplitude),
         sample_count |-> Len(amplitudes)]

\* mutant: the "if not amplitudes" guard forgotten, max() of nothing raises
compute_coherence_metrics_unguarded(resonance_data) ==
    IF Len(resonance_data) = 0
    THEN [status |-> "ValueError"]
    ELSE WindowMetrics([i \in DOMAIN resonance_data |-> resonance_data[i].amplitude],
                       [i \in DOMAIN resonance_data |-> resonance_data[i].time])

compute_coherence_metrics(resonance_data) ==
    LET amplitudes == [i \in DOMAIN resonance_data |-> resonance_data[i].amplitude]
        times      == [i \in DOMAIN resonance_data |-> resonance_data[i].time]
    IN  IF Len(amplitudes) = 0
        THEN ZeroMetrics
        ELSE WindowMetrics(amplitudes, times)

(***************************************************************************)
(* generate_fft_spectrum                                                   *)
(***************************************************************************)
DefaultSampleRate == 100

DefaultMaxBins == 50

\* mutant: the halving forgotten, min(max_bins, n)
NumBinsOfAll(max_bins, n) == Min(max_bins, n)

\* num_bins = min(max_bins, n // 2)
NumBins(max_bins, n) == Min(max_bins, n \div 2)

\* angle = -2 * math.pi * k * i / n, in degrees
Angle(k, i, n) == -RoundDiv(360 * k * i, n)

\* amp * c / 1000 for c in thousandths, without leaving 32 bits
TimesMilli(amp, c) == (amp \div 1000) * c + RoundDiv((amp % 1000) * c, 1000)

\* amp * math.cos(angle) and amp * math.sin(angle)
RealTerm(amp, k, i, n) == TimesMilli(amp, CosMilli(Angle(k, i, n)))

ImagTerm(amp, k, i, n) == TimesMilli(amp, SinMilli(Angle(k, i, n)))

\* the accumulators of bin k after the loop over enumerate(amplitudes)
BinReal(amplitudes, k) ==
    LET T(j) == RealTerm(amplitudes[j], k, j - 1, Len(amplitudes))
    IN  SumTo(T, 1, Len(amplitudes))

BinImag(amplitudes, k) ==
    LET T(j) == ImagTerm(amplitudes[j], k, j - 1, Len(amplitudes))
    IN  SumTo(T, 1, Len(amplitudes))

\* mutant: the division by n forgotten
MagnitudeUnscaled(real, imag, n) == 10 * RoundDiv(Hypot(real, imag), 10)

\* round(math.sqrt(real**2 + imag**2) / n, 6)
Magnitude(real, imag, n) == 10 * RoundDiv(Hypot(real, imag), 10 * n)

\* round(k * sample_rate / n, 4)
Frequency(k, sample_rate, n) ==
    Sign(sample_rate) * DRound4(DoubleOf(k * Abs(sample_rate), n))

\* round(sample_rate / n, 6)
FrequencyResolution(sample_rate, n) ==
    Sign(sample_rate) * DRound6(DoubleOf(Abs(sample_rate), n))

\* the entry appended for bin k
SpectrumEntry(amplitudes, k, sample_rate) ==
    [frequency_hz |-> Frequency(k, sample_rate, Len(amplitudes)),
     magnitude |-> Magnitude(BinReal(amplitudes, k), BinImag(amplitudes, k),
                             Len(amplitudes))]

generate_fft_spectrum(resonance_data, sample_rate, max_bins) ==
    LET amplitudes == [i \in DOMAIN resonance_data |-> resonance_data[i].amplitude]
        n          == Len(amplitudes)
        num_bins   == NumBins(max_bins, n)
        spectrum   == [b \in 1..num_bins |-> SpectrumEntry(amplitudes, b - 1, sample_rate)]
    IN  IF n = 0
        THEN [status |-> "ZeroDivisionError"]
        ELSE [status |-> "ok",
              frequency_resolution_hz |-> FrequencyResolution(sample_rate, n),
              bins |-> num_bins,
              spectrum_data |-> spectrum]

(***************************************************************************)
(* The state: one caller and the values it holds.                          *)
(***************************************************************************)
VARIABLES
    pc,              \* what the caller is doing
    params,          \* the arguments of simulate_harmonic_qubit
    simulation,      \* what simulate_harmonic_qubit returned
    resonance_data,  \* the series handed to the two analysers
    sample_rate,     \* generate_fft_spectrum's sample_rate
    max_bins,        \* generate_fft_spectrum's max_bins
    coherence,       \* what compute_coherence_metrics returned
    fft_data,        \* what generate_fft_spectrum returned
    coh,             \* the locals of a compute_coherence_metrics in progress
    fft,             \* the locals of a generate_fft_spectrum in progress
    overlapped       \* history: both analysers were in progress at once

vars == <<pc, params, simulation, resonance_data, sample_rate, max_bins,
          coherence, fft_data, coh, fft, overlapped>>

NoParams == [base_frequency |-> 0, harmonics |-> 0,
             duration |-> [n |-> 0, d |-> 1], sample_rate |-> 0]

Idle == [pc |-> "idle"]

(***************************************************************************)
(* The inputs.                                                             *)
(***************************************************************************)
MaxLen == 3          \* every series of at most this many samples
MaxExtra == 2        \* and series of up to WindowSize + MaxExtra samples
MaxBinsArg == 2      \* max_bins in -1 .. MaxBinsArg
MaxHarmonics == 2    \* harmonics in -1 .. MaxHarmonics
MaxSamples == 12     \* synthesis runs of at most this many samples
MaxRunTenths == 5    \* driver runs of 0.0 .. MaxRunTenths / 10 seconds
MaxParLen == 3       \* series of the interleaved runs

\* amplitudes, units of 10^-7: -0.0000014, 0, 0.0000003, 0.000003
AmpValues == {-14, 0, 3, 30}

RECURSIVE SeqsOf(_, _)
SeqsOf(S, n) == IF n = 0 THEN {<< >>}
                ELSE {Append(q, x) : q \in SeqsOf(S, n - 1), x \in S}

\* a series as the synthesis lays it out at DefaultSampleRate
SeriesOf(amps) ==
    [i \in DOMAIN amps |-> [time |-> TimePoint(i - 1, DefaultSampleRate),
                            amplitude |-> amps[i]]]

ShortSeries == {SeriesOf(a) : a \in UNION {SeqsOf(AmpValues, n) : n \in 0..MaxLen}}

\* long series: first sample a, last sample c, b between
LongSeries ==
    {SeriesOf([i \in 1..n |-> IF i = 1 THEN a ELSE IF i = n THEN c ELSE b]) :
        n \in (WindowSize - 1)..(WindowSize + MaxExtra),
        a \in AmpValues, b \in {0, 3}, c \in AmpValues}

FftSampleRates == {3, DefaultSampleRate}

Durations == {[n |-> -1, d |-> 1], [n |-> 0, d |-> 1], [n |-> 3, d |-> 10000],
              [n |-> 1, d |-> 10], [n |-> 7, d |-> 100], [n |-> 1, d |-> 1]}

SynSampleRates == {-2, 0, 3, 10, 100, 20000, 40000}

SynParams ==
    {p \in [base_frequency : {5}, harmonics : -1..MaxHarmonics,
            duration : Durations, sample_rate : SynSampleRates] :
        Abs(NumSamples(p.duration, p.sample_rate)) <= MaxSamples}

\* the arguments run_simulation passes
RunBaseFrequency == 5
RunHarmonics == 5
RunDurationTenths == 721
RunSampleRate == 100

RunParams ==
    {[base_frequency |-> RunBaseFrequency, harmonics |-> RunHarmonics,
      duration |-> [n |-> RunDurationTenths, d |-> 10],
      sample_rate |-> RunSampleRate]}
    \cup [base_frequency : {RunBaseFrequency}, harmonics : 0..RunHarmonics,
          duration : {[n |-> t, d |-> 10] : t \in 0..MaxRunTenths},
          sample_rate : {RunSampleRate}]

ParSeries == {SeriesOf(a) : a \in UNION {SeqsOf({-14, 6}, n) : n \in 0..MaxParLen}}

(***************************************************************************)
(* Spec: a caller of the two analysers, each called once, in either order. *)
(***************************************************************************)
Init ==
    /\ pc = "analyse"
    /\ params = NoParams
    /\ simulation = NoResult
    /\ resonance_data \in ShortSeries \cup LongSeries
    /\ sample_rate \in FftSampleRates
    /\ max_bins \in -1..MaxBinsArg
    /\ coherence = NoResult
    /\ fft_data = NoResult
    /\ coh = Idle
    /\ fft = Idle
    /\ overlapped = FALSE

ComputeCoherence ==
    /\ pc = "analyse"
    /\ coherence = NoResult
    /\ coherence' = compute_coherence_metrics(resonance_data)
    /\ UNCHANGED <<pc, params, simulation, resonance_data, sample_rate, max_bins,
                   fft_data, coh, fft, overlapped>>

GenerateFft ==
    /\ pc = "analyse"
    /\ fft_data = NoResult
    /\ fft_data' = generate_fft_spectrum(resonance_data, sample_rate, max_bins)
    /\ UNCHANGED <<pc, params, simulation, resonance_data, sample_rate, max_bins,
                   coherence, coh, fft, overlapped>>

Next == ComputeCoherence \/ GenerateFft

Spec == Init /\ [][Next]_vars

(***************************************************************************)
(* What the claims speak of, said without the model's own operators.       *)
(***************************************************************************)
SeriesLen == Len(resonance_data)

\* the sum of |a| over samples lo .. hi
RECURSIVE AbsSumOver(_, _)
AbsSumOver(lo, hi) ==
    IF lo > hi THEN 0
    ELSE IF lo = hi THEN Abs(resonance_data[lo].amplitude)
    ELSE AbsSumOver(lo, (lo + hi) \div 2) + AbsSumOver((lo + hi) \div 2 + 1, hi)

\* the sum of a over samples lo .. hi
RECURSIVE AmpSumOver(_, _)
AmpSumOver(lo, hi) ==
    IF lo > hi THEN 0
    ELSE IF lo = hi THEN resonance_data[lo].amplitude
    ELSE AmpSumOver(lo, (lo + hi) \div 2) + AmpSumOver((lo + hi) \div 2 + 1, hi)

\* the largest |a| over samples 1 .. hi
AbsMaxUpTo(hi) ==
    CHOOSE m \in {Abs(resonance_data[i].amplitude) : i \in 1..hi} :
        \A i \in 1..hi : Abs(resonance_data[i].amplitude) <= m

\* w = min(100, len(series))
W == Min(100, SeriesLen)

\* max |a| over the first w samples, the sum of |a| over the last w samples
HeadPeak == AbsMaxUpTo(W)

TailSum == AbsSumOver(SeriesLen - W + 1, SeriesLen)

\* v is x / y rounded to a multiple of step: 2 |v y - x| <= step y
Nearest(v, x, y, step) == v % step = 0 /\ 2 * Abs(v * y - x) <= step * y

\* C1: for a series of length n < 2 the transform returns an empty spectrum
\* and does not raise.
C1_ShortSeriesEmptySpectrum ==
    (fft_data # NoResult /\ SeriesLen < 2)
        => (fft_data.status = "ok" /\ fft_data.spectrum_data = << >>)

\* C4: compute_coherence_metrics on an empty series returns, without raising,
\* a record whose five fields are all zero.
C4_EmptySeriesAllZero ==
    (coherence # NoResult /\ SeriesLen = 0)
        => /\ coherence.status = "ok"
           /\ coherence.total_duration_s = 0
           /\ coherence.initial_peak_amplitude = 0
           /\ coherence.final_avg_amplitude = 0
           /\ coherence.coherence_retention = 0
           /\ coherence.sample_count = 0

C4_Witness == coherence # NoResult /\ SeriesLen = 0 /\ coherence.sample_count = 0

C6_ExactBins ==
    fft_data.status = "ok"
        => /\ Len(fft_data.spectrum_data) = Min(max_bins, SeriesLen \div 2)
           /\ \A b \in DOMAIN fft_data.spectrum_data :
                 fft_data.spectrum_data[b].frequency_hz * SeriesLen
                     = (b - 1) * sample_rate * 10 ^ 4

\* C6 as amended: for n >= 1 the call returns a spectrum of exactly
\* max(0, min(max_bins, n // 2)) entries, entry k carrying k * sample_rate / n
\* rounded to 4 decimals.
C6_ClampedRoundedBins ==
    (fft_data # NoResult /\ SeriesLen >= 1)
        => /\ fft_data.status = "ok"
           /\ Len(fft_data.spectrum_data) = Max(0, Min(max_bins, SeriesLen \div 2))
           /\ \A b \in DOMAIN fft_data.spectrum_data :
                 Nearest(fft_data.spectrum_data[b].frequency_hz,
                         (b - 1) * sample_rate * 10 ^ 4, SeriesLen, 1)

\* two bins, the second at a frequency that 4 decimals do not hold
C6_Witness ==
    /\ fft_data.status = "ok"
    /\ Len(fft_data.spectrum_data) = 2
    /\ max_bins = 2
    /\ fft_data.spectrum_data[2].frequency_hz * SeriesLen # sample_rate * 10 ^ 4

\* C8 as stated: for n >= 2 and max_bins >= 1, bin 0 has frequency 0 and
\* magnitude |sum of the amplitudes| / n.
C8_ExactDcBin ==
    (fft_data.status = "ok" /\ SeriesLen >= 2 /\ max_bins >= 1)
        => /\ fft_data.spectrum_data[1].frequency_hz = 0
           /\ fft_data.spectrum_data[1].magnitude * SeriesLen
                  = Abs(AmpSumOver(1, SeriesLen))

\* C8 as amended: bin 0 has frequency 0 and magnitude |sum of the
\* amplitudes| / n rounded to 6 decimals.
C8_RoundedDcBin ==
    (fft_data # NoResult /\ SeriesLen >= 2 /\ max_bins >= 1)
        => /\ fft_data.status = "ok"
           /\ Len(fft_data.spectrum_data) >= 1
           /\ fft_data.spectrum_data[1].frequency_hz = 0
           /\ Nearest(fft_data.spectrum_data[1].magnitude,
                      Abs(AmpSumOver(1, SeriesLen)), SeriesLen, 10)

\* a series with a nonzero mean that 6 decimals do not hold
C8_Witness ==
    /\ fft_data.status = "ok"
    /\ SeriesLen >= 2
    /\ max_bins >= 1
    /\ fft_data.spectrum_data[1].magnitude # 0
    /\ fft_data.spectrum_data[1].magnitude * SeriesLen # Abs(AmpSumOver(1, SeriesLen))

\* C10: in every result returned, "bins" is a non-negative integer equal to
\* the number of entries of "spectrum_data".
C10_BinsCountsEntries ==
    fft_data.status = "ok"
        => /\ fft_data.bins >= 0
           /\ fft_data.bins = Len(fft_data.spectrum_data)

(***************************************************************************)
(* SpecSyn: a caller of simulate_harmonic_qubit.                           *)
(***************************************************************************)
InitSyn ==
    /\ pc = "synthesize"
    /\ params \in SynParams
    /\ simulation = NoResult
    /\ resonance_data = << >>
    /\ sample_rate = DefaultSampleRate
    /\ max_bins = DefaultMaxBins
    /\ coherence = NoResult
    /\ fft_data = NoResult
    /\ coh = Idle
    /\ fft = Idle
    /\ overlapped = FALSE

Simulate ==
    /\ pc = "synthesize"
    /\ simulation' = simulate_harmonic_qubit(params.base_frequency, params.harmonics,
                                             params.duration, params.sample_rate)
    /\ pc' = "returned"
    /\ UNCHANGED <<params, resonance_data, sample_rate, max_bins, coherence,
                   fft_data, coh, fft, overlapped>>

NextSyn == Simulate

SpecSyn == InitSyn /\ [][NextSyn]_vars

\* harmonics >= 1, duration > 0, sample_rate > 0 (base_frequency is 5)
ValidParams == params.harmonics >= 1 /\ params.duration.n > 0 /\ params.sample_rate > 0

\* floor(duration * sample_rate)
FloorSamples == (params.duration.n * params.sample_rate) \div params.duration.d

\* C2: synthesis with invalid parameters returns no series, neither partial
\* nor empty (it is rejected; the kind of the error is left open here).
C2_InvalidRejected ==
    (pc = "returned" /\ ~ValidParams) => simulation.status # "ok"

\* C3: for valid parameters the series has floor(duration * sample_rate)
\* points and its stored times are strictly increasing, time[i] being
\* i / sample_rate (read here to the 4 decimals the series keeps).
C3_SeriesShape ==
    (pc = "returned" /\ ValidParams)
        => /\ simulation.status = "ok"
           /\ Len(simulation.resonance_data) = FloorSamples
           /\ \A i \in DOMAIN simulation.resonance_data :
                 Nearest(simulation.resonance_data[i].time, (i - 1) * 10 ^ 4,
                         params.sample_rate, 1)
           /\ \A i, j \in DOMAIN simulation.resonance_data :
                 i < j => simulation.resonance_data[i].time
                              < simulation.resonance_data[j].time

(***************************************************************************)
(* SpecRun: run_simulation, the three calls in its order; an exception     *)
(* leaves it.                                                              *)
(***************************************************************************)
InitRun ==
    /\ pc = "simulate"
    /\ params \in RunParams
    /\ simulation = NoResult
    /\ resonance_data = << >>
    /\ sample_rate = DefaultSampleRate
    /\ max_bins = DefaultMaxBins
    /\ coherence = NoResult
    /\ fft_data = NoResult
    /\ coh = Idle
    /\ fft = Idle
    /\ overlapped = FALSE

RunSimulate ==
    /\ pc = "simulate"
    /\ simulation' = simulate_harmonic_qubit(params.base_frequency, params.harmonics,
                                             params.duration, params.sample_rate)
    /\ resonance_data' = IF simulation'.status = "ok"
                         THEN simulation'.resonance_data ELSE resonance_data
    /\ pc' = IF simulation'.status = "ok" THEN "coherence" ELSE "raised"
    /\ UNCHANGED <<params, sample_rate, max_bins, coherence, fft_data, coh, fft,
                   overlapped>>

RunCoherence ==
    /\ pc = "coherence"
    /\ coherence' = compute_coherence_metrics(resonance_data)
    /\ pc' = "fft"
    /\ UNCHANGED <<params, simulation, resonance_data, sample_rate, max_bins,
                   fft_data, coh, fft, overlapped>>

RunFft ==
    /\ pc = "fft"
    /\ fft_data' = generate_fft_spectrum(resonance_data, DefaultSampleRate,
                                         DefaultMaxBins)
    /\ pc' = IF fft_data'.status = "ok" THEN "done" ELSE "raised"
    /\ UNCHANGED <<params, simulation, resonance_data, sample_rate, max_bins,
                   coherence, coh, fft, overlapped>>

NextRun == RunSimulate \/ RunCoherence \/ RunFft

SpecRun == InitRun /\ [][NextRun]_vars

(***************************************************************************)
(* SpecPar: the two analysers over one series, each a process that takes   *)
(* the steps of its loops; the steps of the two interleave freely.  The    *)
(* sequential run_simulation is the schedule that finishes the first       *)
(* before it starts the second.                                            *)
(***************************************************************************)
InProgress(locals) == locals.pc \notin {"idle", "load", "done"}

\* [d["amplitude"] for d in resonance_data], [d["time"] for d in resonance_data]
LoadAmplitudes(data) == [i \in DOMAIN data |-> data[i].amplitude]

LoadTimes(data) == [i \in DOMAIN data |-> data[i].time]

\* mutant: one loop index shared by the two functions (a global)
CohIndexShared ==
    IF fft.pc = "accumulate" THEN Min(fft.i + 1, Len(coh.amplitudes)) ELSE coh.i

\* the position of the generator that compute_coherence_metrics is consuming
CohIndex == coh.i

InitPar ==
    /\ pc = "parallel"
    /\ params = NoParams
    /\ simulation = NoResult
    /\ resonance_data \in ParSeries
    /\ sample_rate = DefaultSampleRate
    /\ max_bins \in 0..MaxBinsArg
    /\ coherence = NoResult
    /\ fft_data = NoResult
    /\ coh = [pc |-> "load"]
    /\ fft = [pc |-> "load"]
    /\ overlapped = FALSE

\* lines 98-108: the two copies, and the return for an empty series
CohLoad ==
    /\ pc = "parallel"
    /\ coh.pc = "load"
    /\ LET amplitudes == LoadAmplitudes(resonance_data)
           times      == LoadTimes(resonance_data)
       IN  IF Len(amplitudes) = 0
           THEN /\ coherence' = ZeroMetrics
                /\ coh' = [pc |-> "done"]
           ELSE /\ coherence' = coherence
                /\ coh' = [pc |-> "peak", amplitudes |-> amplitudes, times |-> times,
                           i |-> 1, peak_amplitude |-> 0, final_sum |-> 0]
    /\ overlapped' = (overlapped \/ InProgress(fft))
    /\ UNCHANGED <<pc, params, simulation, resonance_data, sample_rate, max_bins,
                   fft_data, fft>>

\* line 115: max() takes the next abs(a) of amplitudes[:initial_count]
CohPeak ==
    /\ pc = "parallel"
    /\ coh.pc = "peak"
    /\ LET initial_count == Min(WindowSize, Len(coh.amplitudes))
           final_count   == Min(WindowSize, Len(coh.amplitudes))
           peak          == Max(coh.peak_amplitude, Abs(coh.amplitudes[CohIndex]))
       IN  coh' = IF coh.i = initial_count
                  THEN [coh EXCEPT !.pc = "sum", !.peak_amplitude = peak,
                                   !.i = Len(coh.amplitudes) - final_count + 1]
                  ELSE [coh EXCEPT !.peak_amplitude = peak, !.i = coh.i + 1]
    /\ overlapped' = (overlapped \/ InProgress(fft))
    /\ UNCHANGED <<pc, params, simulation, resonance_data, sample_rate, max_bins,
                   coherence, fft_data, fft>>

\* line 116: sum() takes the next abs(a) of amplitudes[-final_count:]
CohSum ==
    /\ pc = "parallel"
    /\ coh.pc = "sum"
    /\ LET total == coh.final_sum + Abs(coh.amplitudes[CohIndex])
       IN  coh' = IF coh.i = Len(coh.amplitudes)
                  THEN [coh EXCEPT !.pc = "return", !.final_sum = total]
                  ELSE [coh EXCEPT !.final_sum = total, !.i = coh.i + 1]
    /\ overlapped' = (overlapped \/ InProgress(fft))
    /\ UNCHANGED <<pc, params, simulation, resonance_data, sample_rate, max_bins,
                   coherence, fft_data, fft>>

\* lines 116-127: the division, the ratio and the returned record
CohReturn ==
    /\ pc = "parallel"
    /\ coh.pc = "return"
    /\ LET final_count == Min(WindowSize, Len(coh.amplitudes))
       IN  coherence' =
               [status |-> "ok",
                total_duration_s |-> coh.times[Len(coh.times)],
                initial_peak_amplitude |-> Round6(coh.peak_amplitude),
                final_avg_amplitude |-> FinalAverage(coh.final_sum, final_count),
                coherence_retention |->
                    CoherenceRatio(coh.final_sum, final_count, coh.peak_amplitude),
                sample_count |-> Len(resonance_data)]
    /\ coh' = [pc |-> "done"]
    /\ overlapped' = (overlapped \/ InProgress(fft))
    /\ UNCHANGED <<pc, params, simulation, resonance_data, sample_rate, max_bins,
                   fft_data, fft>>

\* lines 152-157: the copy, n, num_bins, the empty spectrum
FftLoad ==
    /\ pc = "parallel"
    /\ fft.pc = "load"
    /\ fft' = [pc |-> "bin", amplitudes |-> LoadAmplitudes(resonance_data),
               k |-> 0, i |-> 0, real |-> 0, imag |-> 0, spectrum |-> << >>]
    /\ overlapped' = (overlapped \/ InProgress(coh))
    /\ UNCHANGED <<pc, params, simulation, resonance_data, sample_rate, max_bins,
                   coherence, fft_data, coh>>

\* lines 159-161: the next k of range(num_bins), or the end of the loop
FftBin ==
    /\ pc = "parallel"
    /\ fft.pc = "bin"
    /\ fft' = IF fft.k < NumBins(max_bins, Len(fft.amplitudes))
              THEN [fft EXCEPT !.pc = "accumulate", !.i = 0, !.real = 0, !.imag = 0]
              ELSE [fft EXCEPT !.pc = "return"]
    /\ overlapped' = (overlapped \/ InProgress(coh))
    /\ UNCHANGED <<pc, params, simulation, resonance_data, sample_rate, max_bins,
                   coherence, fft_data, coh>>

\* lines 162-165: one sample into the two accumulators
FftAccumulate ==
    /\ pc = "parallel"
    /\ fft.pc = "accumulate"
    /\ fft.i < Len(fft.amplitudes)
    /\ fft' = [fft EXCEPT
                 !.real = fft.real + RealTerm(fft.amplitudes[fft.i + 1], fft.k, fft.i,
                                              Len(fft.amplitudes)),
                 !.imag = fft.imag + ImagTerm(fft.amplitudes[fft.i + 1], fft.k, fft.i,
                                              Len(fft.amplitudes)),
                 !.i = fft.i + 1]
    /\ overlapped' = (overlapped \/ InProgress(coh))
    /\ UNCHANGED <<pc, params, simulation, resonance_data, sample_rate, max_bins,
                   coherence, fft_data, coh>>

\* lines 167-173: the entry of bin k
FftAppend ==
    /\ pc = "parallel"
    /\ fft.pc = "accumulate"
    /\ fft.i = Len(fft.amplitudes)
    /\ fft' = [fft EXCEPT
                 !.pc = "bin",
                 !.k = fft.k + 1,
                 !.spectrum = Append(fft.spectrum,
                     [frequency_hz |-> Frequency(fft.k, sample_rate, Len(fft.amplitudes)),
                      magnitude |-> Magnitude(fft.real, fft.imag, Len(fft.amplitudes))])]
    /\ overlapped' = (overlapped \/ InProgress(coh))
    /\ UNCHANGED <<pc, params, simulation, resonance_data, sample_rate, max_bins,
                   coherence, fft_data, coh>>

\* lines 175-180: the returned record; sample_rate / n raises for n = 0
FftReturn ==
    /\ pc = "parallel"
    /\ fft.pc = "return"
    /\ fft_data' = IF Len(fft.amplitudes) = 0
                   THEN [status |-> "ZeroDivisionError"]
                   ELSE [status |-> "ok",
                         frequency_resolution_hz |->
                             FrequencyResolution(sample_rate, Len(fft.amplitudes)),
                         bins |-> NumBins(max_bins, Len(fft.amplitudes)),
                         spectrum_data |-> fft.spectrum]
    /\ fft' = [pc |-> "done"]
    /\ overlapped' = (overlapped \/ InProgress(coh))
    /\ UNCHANGED <<pc, params, simulation, resonance_data, sample_rate, max_bins,
                   coherence, coh>>

NextPar ==
    \/ CohLoad \/ CohPeak \/ CohSum \/ CohReturn
    \/ FftLoad \/ FftBin \/ FftAccumulate \/ FftAppend \/ FftReturn

SpecPar == InitPar /\ [][NextPar]_vars

\* C7: in every interleaving of their steps the two analysers return what
\* they return when run one after the other, and no step changes the series.
C7_InterleavingIndependent ==
    /\ [](coh.pc = "done" => coherence = compute_coherence_metrics(resonance_data))
    /\ [](fft.pc = "done" =>
            fft_data = generate_fft_spectrum(resonance_data, sample_rate, max_bins))
    /\ [][resonance_data' = resonance_data]_vars

\* both have returned after steps of one fell between steps of the other
C7_Witness ==
    /\ coh.pc = "done"
    /\ fft.pc = "done"
    /\ overlapped
    /\ fft_data.status = "ok"
    /\ Len(fft_data.spectrum_data) >= 1
    /\ coherence.coherence_retention # 0

\* C9: the run base_frequency=5.0, harmonics=5, duration=72.1,
\* sample_rate=100.0 yields sample_count = 7210, total_duration_s = 72.09 to
\* two decimals, bins = 50 and frequency_resolution_hz = 0.01387 to five.
C9_ConcreteRun ==
    (pc = "done" /\ params.duration.n = RunDurationTenths)
        => /\ coherence.sample_count = 7210
           /\ Abs(coherence.total_duration_s - 720900) < 50
           /\ fft_data.bins = 50
           /\ Abs(fft_data.frequency_resolution_hz - 13870) <= 5

=============================================================================
